---- MODULE Spec2Model ----
(***************************************************************************)
(* Model of deepfake_model_ela_rf.py: artifact loading at import time, the *)
(* /analyze handler, and the ELA feature / region pipeline behind it.      *)
(*                                                                         *)
(* Conventions                                                             *)
(*  - pixel coordinates are <<y, x>>, 0-based, as numpy indexes them;      *)
(*  - an image array is a function [0..H-1 -> [0..W-1 -> 0..255]] (uint8); *)
(*  - a labeled array (the result of ndimage.label) is kept as the         *)
(*    sequence lab with lab[i] = argwhere(labeled_array == i);             *)
(*  - float64 quantities are fixed-point integers in tenths (floor), or    *)
(*    per-mille for the normalised histogram; this quantisation is exact   *)
(*    on uniform arrays and is stated at each operator.                    *)
(***************************************************************************)
EXTENDS Integers, Sequences, FiniteSets, TLC

VARIABLES
    disk,           \* files under feature_model_output/ and the JSON keys
    svc,            \* "starting" | "serving" | "failed" (module import)
    RF_MODEL, SCALER, ELA_CFG,   \* module globals assigned at line 79
    req,            \* per request: position in analyze_image and response
    labeled_array, num_features, ela_array, min_area, regions,
                    \* find_suspicious_regions from line 114 on
    boxes, top_boxes,   \* analyze_image's box selection, lines 275-278
    feat,           \* what extract_features returned, with its region lists
    heat,           \* the normalisation of _ela_heatmap_image
    runs,           \* what successive runs of the pipeline returned
    mask_stage      \* find_suspicious_regions, lines 103-116: its locals

vars == <<disk, svc, RF_MODEL, SCALER, ELA_CFG, req,
          labeled_array, num_features, ela_array, min_area, regions,
          boxes, top_boxes, feat, heat, runs, mask_stage>>

svcVars == <<disk, svc, RF_MODEL, SCALER, ELA_CFG, req>>
regionVars == <<labeled_array, num_features, ela_array, min_area, regions>>
topVars == <<boxes, top_boxes>>
featVars == <<feat, heat, runs, mask_stage>>

None == "None"

(***************************************************************************)
(* Bounds of the model.                                                    *)
(***************************************************************************)
MaxRequests == 2
MaxRuns == 2        \* runs of the pipeline on one image
MaxMaskPixels == 4  \* most pixels set in a mask of SpecMask's small maps
MaxSide == 12       \* largest row / column span of the probe component
MaxBoxes == 12      \* longest list of detected boxes

(***************************************************************************)
(* Program constants.                                                      *)
(***************************************************************************)
TOP_N_BOXES == 10
STRATEGY_CUTOFF == 1000     \* if num_features > 1000
MIN_DIM == 10               \* if width > 10 and height > 10
NOISE_THRESHOLD_PCT == 15

(***************************************************************************)
(* Small helpers (numpy reductions over finite sets and sequences).        *)
(***************************************************************************)
MinOf(S) == CHOOSE m \in S : \A n \in S : m <= n
MaxOf(S) == CHOOSE m \in S : \A n \in S : m >= n
Ys(P) == {p[1] : p \in P}
Xs(P) == {p[2] : p \in P}

\* sum of f over lo..hi by halving (bounded evaluation depth)
RECURSIVE SumFn(_, _, _)
SumFn(f, lo, hi) ==
    IF lo > hi THEN 0
    ELSE IF lo = hi THEN f[lo]
    ELSE LET mid == (lo + hi) \div 2
         IN SumFn(f, lo, mid) + SumFn(f, mid + 1, hi)

\* sum of the array f over the pixel set S
SumSet(S, f) ==
    IF S = {} THEN 0
    ELSE LET x0 == MinOf(Xs(S))
             x1 == MaxOf(Xs(S))
             row(y) == SumFn([x \in x0..x1 |-> IF <<y, x>> \in S THEN f[y][x] ELSE 0],
                             x0, x1)
         IN SumFn([y \in MinOf(Ys(S))..MaxOf(Ys(S)) |-> row(y)],
                  MinOf(Ys(S)), MaxOf(Ys(S)))

RECURSIVE SumSeq(_)
SumSeq(s) == IF s = <<>> THEN 0 ELSE Head(s) + SumSeq(Tail(s))

\* float(np.mean(values)) in tenths, rounded down
MeanTenths(total, count) == (10 * total) \div count

(***************************************************************************)
(* find_suspicious_regions, lines 118-156: the two extraction strategies.  *)
(* lab is the labeled array, lab[i] = the pixels carrying label i.         *)
(***************************************************************************)

\* scipy.ndimage.find_objects: per label the bounding slices
\* (slice(y0, y1), slice(x0, x1)) with exclusive stops, None for a label
\* that does not occur (NoSlice stands for that None).
NoSlice == [ystart |-> 0, ystop |-> 0, xstart |-> 0, xstop |-> 0]

find_objects(lab) ==
    [i \in 1..Len(lab) |->
        IF lab[i] = {} THEN NoSlice
        ELSE [ystart |-> MinOf(Ys(lab[i])), ystop |-> MaxOf(Ys(lab[i])) + 1,
              xstart |-> MinOf(Xs(lab[i])), xstop |-> MaxOf(Xs(lab[i])) + 1]]

\* region_mask = labeled_array[slice_obj] == i          (line 126)
SliceRegionMask(lab, s, i) ==
    {p \in lab[i] : /\ s.ystart <= p[1] /\ p[1] < s.ystop
                    /\ s.xstart <= p[2] /\ p[2] < s.xstop}

\* if region_size < min_area: continue            (lines 128, 145)
AreaTooSmallLe(region_size, minA) == region_size <= minA
AreaTooSmall(region_size, minA) == region_size < minA

\* if width > 10 and height > 10                  (lines 134, 150)
DimOK(width, height) == width > MIN_DIM /\ height > MIN_DIM

\* width, height = x_max - x_min, y_max - y_min with slice stops (line 133)
SliceWidth(s) == s.xstop - s.xstart
SliceHeight(s) == s.ystop - s.ystart

SliceKeeps(lab, slices, minA, i) ==
    /\ slices[i] # NoSlice
    /\ ~AreaTooSmall(Cardinality(SliceRegionMask(lab, slices[i], i)), minA)
    /\ DimOK(SliceWidth(slices[i]), SliceHeight(slices[i]))

Labels(lab) == [i \in 1..Len(lab) |-> i]

\* the loop of lines 123-138; the appended entries keep label order
BoundingSliceBranch(lab, ela, minA) ==
    LET slices == find_objects(lab)
        kept == SelectSeq(Labels(lab), LAMBDA i : SliceKeeps(lab, slices, minA, i))
    IN [boxes |-> [k \in 1..Len(kept) |->
                     LET s == slices[kept[k]]
                     IN <<s.xstart, s.ystart, SliceWidth(s), SliceHeight(s)>>],
        region_sizes |-> [k \in 1..Len(kept) |->
                     Cardinality(SliceRegionMask(lab, slices[kept[k]], kept[k]))],
        region_intensities |-> [k \in 1..Len(kept) |->
                     LET m == SliceRegionMask(lab, slices[kept[k]], kept[k])
                     IN MeanTenths(SumSet(m, ela), Cardinality(m))]]

\* y_min, x_min = coords.min(axis=0); y_max, x_max = coords.max(axis=0)
\* width, height = x_max - x_min, y_max - y_min         (lines 147-149)
CoordWidth(coords) == MaxOf(Xs(coords)) - MinOf(Xs(coords))
CoordHeight(coords) == MaxOf(Ys(coords)) - MinOf(Ys(coords))

CoordKeeps(lab, minA, i) ==
    /\ ~AreaTooSmall(Cardinality(lab[i]), minA)
    /\ DimOK(CoordWidth(lab[i]), CoordHeight(lab[i]))

\* the loop of lines 143-154
CoordinateBranch(lab, ela, minA) ==
    LET kept == SelectSeq(Labels(lab), LAMBDA i : CoordKeeps(lab, minA, i))
    IN [boxes |-> [k \in 1..Len(kept) |->
                     LET c == lab[kept[k]]
                     IN <<MinOf(Xs(c)), MinOf(Ys(c)), CoordWidth(c), CoordHeight(c)>>],
        region_sizes |-> [k \in 1..Len(kept) |-> Cardinality(lab[kept[k]])],
        region_intensities |-> [k \in 1..Len(kept) |->
                     MeanTenths(SumSet(lab[kept[k]], ela), Cardinality(lab[kept[k]]))]]

\* if num_features > 1000: ... else: ...                (line 118)
UseSlices(n) == n > STRATEGY_CUTOFF

ExtractRegions(lab, ela, minA) ==
    IF UseSlices(Len(lab)) THEN BoundingSliceBranch(lab, ela, minA)
    ELSE CoordinateBranch(lab, ela, minA)

(***************************************************************************)
(* Array helpers.  An array a is [0..H-1 -> [0..W-1 -> 0..255]].           *)
(***************************************************************************)
Height(a) == Cardinality(DOMAIN a)
Width(a) == Cardinality(DOMAIN a[0])
ArraySize(a) == Height(a) * Width(a)                   \* ela_array.size
Pixels(a) == (0..(Height(a) - 1)) \X (0..(Width(a) - 1))
Values(a) == {a[p[1]][p[2]] : p \in Pixels(a)}
Total(a) ==
    SumFn([y \in 0..(Height(a) - 1) |-> SumFn(a[y], 0, Width(a) - 1)],
          0, Height(a) - 1)

\* floor of the square root
ISqrt(n) == CHOOSE r \in 0..2600 : r * r <= n /\ n < (r + 1) * (r + 1)

\* float(np.mean(ela_array)), in tenths
MeanError(a) == MeanTenths(Total(a), ArraySize(a))

\* float(np.std(ela_array)) = sqrt(mean(|x - mean|^2)), in tenths
StdError(a) ==
    LET m == MeanError(a)
        sq == [y \in 0..(Height(a) - 1) |->
                 SumFn([x \in 0..(Width(a) - 1) |-> (10 * a[y][x] - m) * (10 * a[y][x] - m)],
                       0, Width(a) - 1)]
    IN ISqrt(SumFn(sq, 0, Height(a) - 1) \div ArraySize(a))

\* the k-th smallest pixel value, k counted from 0
KthSmallest(a, k) ==
    MinOf({v \in Values(a) :
             Cardinality({p \in Pixels(a) : a[p[1]][p[2]] <= v}) > k})

\* np.percentile(ela_array, q): linear interpolation at q/100 * (n - 1),
\* in tenths
Percentile(a, q) ==
    LET pos == q * (ArraySize(a) - 1)
        lo == KthSmallest(a, pos \div 100)
        hi == KthSmallest(a, IF pos % 100 = 0 THEN pos \div 100 ELSE pos \div 100 + 1)
    IN 10 * lo + ((pos % 100) * 10 * (hi - lo)) \div 100

\* threshold = mean_error + (ELA_CFG.threshold_multiplier * std_error)
\* (line 166), in tenths; mult10 is the multiplier in tenths
ThresholdDrifting(mean10, std10, mult10) ==
    mean10 + (mult10 * std10) \div 10 + Len(runs)
Threshold(mean10, std10, mult10) == mean10 + (mult10 * std10) \div 10

\* ela_array > threshold                              (lines 103, 168)
SuspiciousMaskGe(a, thr10) == {p \in Pixels(a) : 10 * a[p[1]][p[2]] >= thr10}
SuspiciousMask(a, thr10) == {p \in Pixels(a) : 10 * a[p[1]][p[2]] > thr10}

(***************************************************************************)
(* find_suspicious_regions, lines 103-116: mask, noise suppression and     *)
(* labeling.                                                               *)
(***************************************************************************)
\* (num_suspicious / ela_array.size * 100) > noise_threshold_pct; the
\* float64 evaluation agrees with the exact comparison for every array of
\* at most 2000 pixels
TooNoisyGe(num_suspicious, size) == 100 * num_suspicious >= NOISE_THRESHOLD_PCT * size
TooNoisy(num_suspicious, size) == 100 * num_suspicious > NOISE_THRESHOLD_PCT * size

\* binary_opening(mask, structure=np.ones((2, 2)), iterations=1):
\* erosion by the 2x2 square, then dilation by it
Eroded(mask) ==
    {p \in mask : /\ <<p[1] - 1, p[2]>> \in mask
                  /\ <<p[1], p[2] - 1>> \in mask
                  /\ <<p[1] - 1, p[2] - 1>> \in mask}
Dilated(er) ==
    UNION {{<<p[1] - dy, p[2] - dx>> : dy \in {0, 1}, dx \in {0, 1}} : p \in er}
binary_opening(mask) == Dilated(Eroded(mask))

\* ndimage.label with the default structure: 4-connected components,
\* numbered in raster order of their first pixel
Neighbours(p) ==
    {<<p[1] - 1, p[2]>>, <<p[1] + 1, p[2]>>, <<p[1], p[2] - 1>>, <<p[1], p[2] + 1>>}

RECURSIVE Fill(_, _, _)
Fill(mask, comp, frontier) ==
    LET new == {q \in UNION {Neighbours(p) : p \in frontier} : q \in mask /\ q \notin comp}
    IN IF new = {} THEN comp ELSE Fill(mask, comp \cup new, new)

RasterFirst(S) ==
    LET y == MinOf(Ys(S)) IN <<y, MinOf({p[2] : p \in {q \in S : q[1] = y}})>>

RECURSIVE label(_)
label(mask) ==
    IF mask = {} THEN <<>>
    ELSE LET comp == Fill(mask, {RasterFirst(mask)}, {RasterFirst(mask)})
         IN <<comp>> \o label(mask \ comp)

NoRegionLists == [boxes |-> <<>>, region_sizes |-> <<>>, region_intensities |-> <<>>]

\* lines 103-116: the locals of the call when it leaves this part.
\* `thresholded` is the mask of line 103, `opening` says that line 112 ran,
\* `labeled` that line 114 ran, `suspicious_mask` is the mask handed to
\* ndimage.label, and `returned_at` is the line of the return statement
\* taken (107, 116, or 156 when the call goes on to line 118).
MaskStage(a, thr10) ==
    LET thresholded == SuspiciousMask(a, thr10)
        num_suspicious == Cardinality(thresholded)
        opening == TooNoisy(num_suspicious, ArraySize(a))
        suspicious_mask == IF opening THEN binary_opening(thresholded) ELSE thresholded
        lab == label(suspicious_mask)
    IN IF num_suspicious = 0
       THEN [num_suspicious |-> 0, thresholded |-> thresholded, opening |-> FALSE,
             labeled |-> FALSE, suspicious_mask |-> thresholded,
             lab |-> <<>>, num_features |-> 0, returned_at |-> 107]
       ELSE [num_suspicious |-> num_suspicious, thresholded |-> thresholded,
             opening |-> opening, labeled |-> TRUE,
             suspicious_mask |-> suspicious_mask,
             lab |-> lab, num_features |-> Len(lab),
             returned_at |-> IF Len(lab) = 0 THEN 116 ELSE 156]

find_suspicious_regions(a, thr10, minA) ==
    LET st == MaskStage(a, thr10)
    IN IF st.returned_at = 107 THEN NoRegionLists
       ELSE IF st.returned_at = 116 THEN NoRegionLists
       ELSE ExtractRegions(st.lab, a, minA)

(***************************************************************************)
(* extract_features, lines 159-207, applied to the error map perform_ela   *)
(* returned.  Entries of the feature vector are float64 in the code; here  *)
(* they are in tenths, the normalised histogram in per-mille.              *)
(***************************************************************************)
HIST_BINS == 10

\* np.histogram(ela_array, bins=10, range=(0, 255)): ten equal bins, the
\* last one closed on the right
Bin(v) == IF v = 255 THEN HIST_BINS ELSE (HIST_BINS * v) \div 255 + 1
HistNorm(a) ==
    [b \in 1..HIST_BINS |->
        (1000 * Cardinality({p \in Pixels(a) : Bin(a[p[1]][p[2]]) = b})) \div ArraySize(a)]

\* np.abs(np.diff(ela_array, axis=0)).sum(): the array is uint8, so each
\* difference wraps modulo 256 and np.abs leaves it as it is
EdgesH(a) ==
    SumFn([y \in 0..(Height(a) - 2) |->
             SumFn([x \in 0..(Width(a) - 1) |-> (a[y + 1][x] - a[y][x]) % 256],
                   0, Width(a) - 1)],
          0, Height(a) - 2)
\* np.abs(np.diff(ela_array, axis=1)).sum()
EdgesV(a) ==
    SumFn([y \in 0..(Height(a) - 1) |->
             SumFn([x \in 0..(Width(a) - 2) |-> (a[y][x + 1] - a[y][x]) % 256],
                   0, Width(a) - 2)],
          0, Height(a) - 1)

\* np.std of a list of integers, in tenths
StdSeq(s) ==
    LET m == MeanTenths(SumSeq(s), Len(s))
    IN ISqrt(SumSeq([k \in 1..Len(s) |-> (10 * s[k] - m) * (10 * s[k] - m)]) \div Len(s))

MaxSeq(s) == MaxOf({s[k] : k \in 1..Len(s)})

\* lines 174-178: every aggregate is 0.0 for an empty list
RegionAggregates(r) ==
    <<10 * Len(r.boxes),
      IF r.region_sizes # <<>>
        THEN MeanTenths(SumSeq(r.region_sizes), Len(r.region_sizes)) ELSE 0,
      IF r.region_sizes # <<>> THEN 10 * MaxSeq(r.region_sizes) ELSE 0,
      IF r.region_intensities # <<>>
        THEN SumSeq(r.region_intensities) \div Len(r.region_intensities) ELSE 0,
      IF r.region_sizes # <<>> THEN StdSeq(r.region_sizes) ELSE 0>>

\* [mean_error, max_error, std_error, median_error, threshold,
\*  suspicious_pixels, suspicious_percentage]               (line 188)
GlobalStats(a, thr10) ==
    <<MeanError(a), 10 * MaxOf(Values(a)), StdError(a), Percentile(a, 50), thr10,
      10 * Cardinality(SuspiciousMask(a, thr10)),
      (1000 * Cardinality(SuspiciousMask(a, thr10))) \div ArraySize(a)>>

\* np.percentile(ela_array, [25, 50, 75, 90, 95])           (line 182)
Percentiles(a) ==
    <<Percentile(a, 25), Percentile(a, 50), Percentile(a, 75),
      Percentile(a, 90), Percentile(a, 95)>>

\* np.concatenate([...])                                 (lines 186-194)
ConcatFeaturesNoEdges(stats, aggregates, hist_norm, percentiles, edges) ==
    stats \o aggregates \o hist_norm \o percentiles
ConcatFeatures(stats, aggregates, hist_norm, percentiles, edges) ==
    stats \o aggregates \o hist_norm \o percentiles \o edges

extract_features(a, cfg) ==
    LET threshold == Threshold(MeanError(a), StdError(a), cfg.threshold_multiplier)
        found == find_suspicious_regions(a, threshold, cfg.min_region_size)
        stats == GlobalStats(a, threshold)
    IN [features |-> ConcatFeatures(stats, RegionAggregates(found), HistNorm(a),
                                    Percentiles(a), <<10 * EdgesH(a), 10 * EdgesV(a)>>),
        ela_array |-> a,
        threshold |-> threshold,
        boxes |-> found.boxes,
        region_sizes |-> found.region_sizes,
        region_intensities |-> found.region_intensities,
        feature_dict |-> [mean_error |-> stats[1], max_error |-> stats[2],
                          std_error |-> stats[3], median_error |-> stats[4],
                          threshold |-> threshold, suspicious_pixels |-> stats[6],
                          suspicious_percentage |-> stats[7],
                          num_regions |-> Len(found.boxes)]]

\* _ela_heatmap_image, lines 232-233: ptp_val = np.ptp(ela_array), then
\* the divisor (ptp_val or 1)
Ptp(a) == MaxOf(Values(a)) - MinOf(Values(a))
HeatmapDivisor(a) == IF Ptp(a) = 0 THEN 1 ELSE Ptp(a)

\* normalized = (ela_array - ela_array.min()) / (ptp_val or 1), in
\* per-mille; numpy yields nan where the divisor is 0
Normalized(a) ==
    [y \in 0..(Height(a) - 1) |-> [x \in 0..(Width(a) - 1) |->
        IF HeatmapDivisor(a) = 0 THEN "nan"
        ELSE (1000 * (a[y][x] - MinOf(Values(a)))) \div HeatmapDivisor(a)]]

(***************************************************************************)
(* Specification SpecRegions: the strategies applied to labeled arrays.    *)
(* A scene is what ndimage.label returns for an error map holding          *)
(*   - a probe component: an L of r rows and c columns with k extra pixels,*)
(*   - optionally a one-pixel component inside the probe's bounding box,   *)
(*   - optionally a second component (a twin of the probe with one more    *)
(*     pixel, or a full square),                                           *)
(*   - isolated one-pixel components on a lattice below them, as many as   *)
(*     bring the component count to `total`.                               *)
(* Labels follow raster order of each component's first pixel, as          *)
(* ndimage.label assigns them; at most 15 % of the pixels are set, so      *)
(* line 110 leaves the mask unopened.                                      *)
(***************************************************************************)
ProbeSides == 10..MaxSide
MinAreas == {23, 24}

Shift(P, dx) == {<<p[1], p[2] + dx>> : p \in P}

Probe(c, r, k) ==
    {<<y, 0>> : y \in 0..(r - 1)} \cup {<<r - 1, x>> : x \in 0..(c - 1)}
        \cup {<<r - 2, x>> : x \in 1..k}

Second(sc) ==
    IF sc.second = "twin" THEN Shift(Probe(sc.c, sc.r, sc.k + 1), MaxSide + 2)
    ELSE {<<y, x>> : y \in 0..(MaxSide - 1), x \in (MaxSide + 2)..(2 * MaxSide + 1)}

BaseComponents(sc) ==
    <<Probe(sc.c, sc.r, sc.k)>>
        \o (IF sc.intruder THEN << {<<0, 2>>} >> ELSE <<>>)
        \o (IF sc.second = "none" THEN <<>> ELSE <<Second(sc)>>)

Speck(j) == <<MaxSide + 2 + 3 * (j \div 40), 3 * (j % 40)>>

Scenes ==
    {sc \in [c : ProbeSides, r : ProbeSides, k : {0, 2}, intruder : BOOLEAN,
             second : {"none", "twin", "block"},
             total : {0, STRATEGY_CUTOFF, STRATEGY_CUTOFF + 1}] : TRUE}

NumSpecks(sc) ==
    IF sc.total = 0 THEN 0 ELSE sc.total - Len(BaseComponents(sc))

SceneLabels(sc) ==
    BaseComponents(sc) \o [j \in 1..NumSpecks(sc) |-> {Speck(j - 1)}]

SceneHeight(sc) ==
    IF NumSpecks(sc) = 0 THEN MaxSide + 1
    ELSE MaxSide + 3 + 3 * ((NumSpecks(sc) - 1) \div 40)

SceneIsSet(sc, probe, second, n, y, x) ==
    IF y < MaxSide + 2
    THEN \/ x <= MaxSide /\ <<y, x>> \in probe
         \/ sc.intruder /\ y = 0 /\ x = 2
         \/ x > MaxSide /\ <<y, x>> \in second
    ELSE /\ (y - MaxSide - 2) % 3 = 0
         /\ x % 3 = 0 /\ x < 120
         /\ 40 * ((y - MaxSide - 2) \div 3) + (x \div 3) < n

SceneEla(sc) ==
    LET probe == Probe(sc.c, sc.r, sc.k)
        second == IF sc.second = "none" THEN {} ELSE Second(sc)
        n == NumSpecks(sc)
    IN [y \in 0..(SceneHeight(sc) - 1) |->
        [x \in 0..119 |->
            IF SceneIsSet(sc, probe, second, n, y, x)
            THEN 200 + ((x + y) % 50) ELSE (x * y) % 3]]

IdleService ==
    /\ disk = None /\ svc = None
    /\ RF_MODEL = None /\ SCALER = None /\ ELA_CFG = None
    /\ req = <<>>
NoRegions == [strategy |-> "none", out |-> NoRegionLists]
NoTop == [done |-> FALSE, list |-> <<>>]

IdleRegions ==
    /\ labeled_array = <<>> /\ num_features = 0 /\ ela_array = <<>>
    /\ min_area = 0 /\ regions = NoRegions
IdleTop == boxes = <<>> /\ top_boxes = NoTop
NotDone == [done |-> FALSE]
IdleFeatures == feat = NotDone /\ heat = NotDone /\ runs = <<>> /\ mask_stage = NotDone

InitRegions ==
    /\ IdleService /\ IdleTop /\ IdleFeatures
    /\ \E sc \in Scenes :
        /\ labeled_array = SceneLabels(sc)
        /\ num_features = Len(SceneLabels(sc))
        /\ ela_array = SceneEla(sc)
    /\ min_area \in MinAreas
    /\ regions = NoRegions

\* find_suspicious_regions from line 118 on, bounding-slice branch taken
ExtractBySlices ==
    /\ regions = NoRegions
    /\ UseSlices(num_features)
    /\ regions' = [strategy |-> "slices",
                   out |-> ExtractRegions(labeled_array, ela_array, min_area)]
    /\ UNCHANGED <<labeled_array, num_features, ela_array, min_area>>
    /\ UNCHANGED svcVars /\ UNCHANGED topVars /\ UNCHANGED featVars

\* find_suspicious_regions from line 118 on, coordinate branch taken
ExtractByCoords ==
    /\ regions = NoRegions
    /\ ~UseSlices(num_features)
    /\ regions' = [strategy |-> "coords",
                   out |-> ExtractRegions(labeled_array, ela_array, min_area)]
    /\ UNCHANGED <<labeled_array, num_features, ela_array, min_area>>
    /\ UNCHANGED svcVars /\ UNCHANGED topVars /\ UNCHANGED featVars

NextRegions == ExtractBySlices \/ ExtractByCoords

SpecRegions == InitRegions /\ [][NextRegions]_vars

(***************************************************************************)
(* Claims about the extraction strategies (checked under SpecRegions).     *)
(***************************************************************************)
Extracted == regions.strategy # "none"

\* number of pixel columns / rows a set of integers spans
Span(S) == MaxOf(S) - MinOf(S) + 1

\* the set of {x, y, width, height, pixel_count} a strategy returns
RegionSet(out) ==
    {<<out.boxes[k], out.region_sizes[k]>> : k \in 1..Len(out.boxes)}

\* the entries of the returned lists that describe component i: those whose
\* box starts at the component's top-left bounding corner
EntriesOf(i) ==
    {k \in 1..Len(regions.out.boxes) :
        /\ regions.out.boxes[k][1] = MinOf(Xs(labeled_array[i]))
        /\ regions.out.boxes[k][2] = MinOf(Ys(labeled_array[i]))}
Included(i) == EntriesOf(i) # {}

PixelCount(i) == Cardinality(labeled_array[i])

\* C1 (as claimed): once regions were extracted from a labeled mask, the
\* bounding-slice strategy and the coordinate-enumeration strategy, both
\* applied to that same labeled mask with the same min_area, give the same
\* set of {x, y, width, height, pixel_count}.
C1_StrategiesAgree ==
    Extracted =>
        RegionSet(BoundingSliceBranch(labeled_array, ela_array, min_area))
            = RegionSet(CoordinateBranch(labeled_array, ela_array, min_area))

\* C2 (as claimed): whichever strategy was taken, a component with at least
\* min_area pixels that spans exactly 10 columns or exactly 10 rows is left
\* out, and one that spans exactly 11 columns and at least 11 rows is in the
\* result.
C2_DimensionBoundary ==
    Extracted =>
        \A i \in 1..num_features :
            PixelCount(i) >= min_area =>
                /\ (Span(Xs(labeled_array[i])) = 10 \/ Span(Ys(labeled_array[i])) = 10)
                        => ~Included(i)
                /\ (Span(Xs(labeled_array[i])) = 11 /\ Span(Ys(labeled_array[i])) >= 11)
                        => Included(i)

\* the width and height the strategy that was taken computes for component i
TakenDims(i) ==
    IF regions.strategy = "slices"
    THEN LET s == find_objects(labeled_array)[i] IN <<SliceWidth(s), SliceHeight(s)>>
    ELSE <<CoordWidth(labeled_array[i]), CoordHeight(labeled_array[i])>>
PassesDimFilter(i) == DimOK(TakenDims(i)[1], TakenDims(i)[2])

\* C3: in either strategy, a component whose bounding box passes the
\* strategy's dimension filter is in the result when it has min_area pixels
\* or more and is left out when it has fewer (min_area - 1 in particular),
\* and the pixel count reported for it is the number of pixels carrying its
\* label.
C3_AreaBoundary ==
    Extracted =>
        \A i \in 1..num_features :
            PassesDimFilter(i) =>
                /\ PixelCount(i) >= min_area => Included(i)
                /\ PixelCount(i) < min_area => ~Included(i)
                /\ \A k \in EntriesOf(i) : regions.out.region_sizes[k] = PixelCount(i)

\* C3 witness: the bounding-slice strategy ran on a mask holding a component
\* of exactly min_area pixels that it reports with that count, next to a
\* component of min_area - 1 pixels that it leaves out, both passing the
\* dimension filter.
C3_Witness ==
    /\ regions.strategy = "slices"
    /\ \E i, j \in 1..3 :
        /\ PassesDimFilter(i) /\ PixelCount(i) = min_area /\ Included(i)
        /\ \A k \in EntriesOf(i) : regions.out.region_sizes[k] = min_area
        /\ PassesDimFilter(j) /\ PixelCount(j) = min_area - 1 /\ ~Included(j)

\* the same boundary met by the coordinate-enumeration strategy
C3_WitnessCoords ==
    /\ regions.strategy = "coords"
    /\ \E i, j \in 1..Len(labeled_array) :
        /\ PassesDimFilter(i) /\ PixelCount(i) = min_area /\ Included(i)
        /\ PassesDimFilter(j) /\ PixelCount(j) = min_area - 1 /\ ~Included(j)

(***************************************************************************)
(* analyze_image, lines 275-278: the top-N box selection.                  *)
(***************************************************************************)
\* b[2] * b[3] of a box (x, y, w, h)                           (line 276)
Area(b) == b[3] * b[4]

\* boxes_with_sizes = list(zip(boxes, [b[2] * b[3] for b in boxes]))
BoxesWithSizes(bs) == [k \in 1..Len(bs) |-> <<bs[k], Area(bs[k])>>]

\* sorted(..., key=lambda x: x[1], reverse=True) is a stable sort: an entry
\* goes behind every entry whose key is greater than or equal to its own.
RECURSIVE InsertDescTiesFirst(_, _)
InsertDescTiesFirst(sorted, p) ==
    IF sorted = <<>> THEN <<p>>
    ELSE IF Head(sorted)[2] > p[2]
         THEN <<Head(sorted)>> \o InsertDescTiesFirst(Tail(sorted), p)
         ELSE <<p>> \o sorted

RECURSIVE InsertDesc(_, _)
InsertDesc(sorted, p) ==
    IF sorted = <<>> THEN <<p>>
    ELSE IF Head(sorted)[2] >= p[2]
         THEN <<Head(sorted)>> \o InsertDesc(Tail(sorted), p)
         ELSE <<p>> \o sorted

RECURSIVE SortedDesc(_, _)
SortedDesc(pairs, n) ==
    IF n = 0 THEN <<>> ELSE InsertDesc(SortedDesc(pairs, n - 1), pairs[n])

\* boxes_sorted[:TOP_N_BOXES]
Take(s) == SubSeq(s, 1, IF Len(s) < TOP_N_BOXES THEN Len(s) ELSE TOP_N_BOXES)

\* top_boxes = [b for b, _ in boxes_sorted[:TOP_N_BOXES]]
TopBoxes(bs) ==
    LET boxes_sorted == SortedDesc(BoxesWithSizes(bs), Len(bs))
        head == Take(boxes_sorted)
    IN [k \in 1..Len(head) |-> head[k][1]]

(***************************************************************************)
(* Specification SpecTop: the selection applied to lists of detected       *)
(* boxes.  Box k of a list lies at x = 14 (k - 1), y = 0 (the boxes of     *)
(* distinct components side by side) and takes its width and height from   *)
(* a repeating pattern, so that equal and unequal areas both occur.        *)
(***************************************************************************)
BoxDims == {<<11, 11>>, <<11, 12>>, <<12, 11>>, <<12, 12>>}

BoxList(n, pat) ==
    [k \in 1..n |-> <<14 * (k - 1), 0, pat[((k - 1) % 4) + 1][1], pat[((k - 1) % 4) + 1][2]>>]

InitTop ==
    /\ IdleService /\ IdleRegions /\ IdleFeatures
    /\ \E n \in 0..MaxBoxes : \E pat \in [1..4 -> BoxDims] : boxes = BoxList(n, pat)
    /\ top_boxes = NoTop

\* analyze_image, lines 275-278
SelectTopBoxes ==
    /\ ~top_boxes.done
    /\ top_boxes' = [done |-> TRUE, list |-> TopBoxes(boxes)]
    /\ UNCHANGED boxes
    /\ UNCHANGED svcVars /\ UNCHANGED regionVars /\ UNCHANGED featVars

NextTop == SelectTopBoxes

SpecTop == InitTop /\ [][NextTop]_vars

\* position in the detected list of the k-th selected box (the boxes of a
\* list are pairwise distinct)
DetectedAt(k) == CHOOSE j \in 1..Len(boxes) : boxes[j] = top_boxes.list[k]
Selected == {j \in 1..Len(boxes) : \E k \in 1..Len(top_boxes.list) : boxes[j] = top_boxes.list[k]}

\* C4: once selected, top_boxes has min(10, n) entries, each a detected box
\* and none twice, in descending order of width * height; no omitted box is
\* larger than a selected one; selected boxes of equal area stay in
\* detection order; and the list is non-empty when a box was detected.
C4_TopBoxes ==
    top_boxes.done =>
        LET top == top_boxes.list
            n == Len(boxes)
        IN /\ Len(top) = (IF n < 10 THEN n ELSE 10)
           /\ \A k \in 1..Len(top) : \E j \in 1..n : boxes[j] = top[k]
           /\ Cardinality(Selected) = Len(top)
           /\ \A k, l \in 1..Len(top) :
                k < l => /\ top[k][3] * top[k][4] >= top[l][3] * top[l][4]
                         /\ top[k][3] * top[k][4] = top[l][3] * top[l][4]
                                => DetectedAt(k) < DetectedAt(l)
           /\ \A j \in (1..n) \ Selected : \A k \in 1..Len(top) :
                boxes[j][3] * boxes[j][4] <= top[k][3] * top[k][4]
           /\ n >= 1 => top # <<>>

\* C4 witness: more than ten boxes were detected, with equal and unequal
\* areas among them, and ten were selected, two of equal area among them.
C4_Witness ==
    /\ top_boxes.done
    /\ Len(boxes) > 10
    /\ Len(top_boxes.list) = 10
    /\ \E i, j \in 1..Len(boxes) : Area(boxes[i]) < Area(boxes[j])
    /\ \E k \in 1..9 : Area(top_boxes.list[k]) = Area(top_boxes.list[k + 1])
    /\ \E j \in (1..Len(boxes)) \ Selected : Area(boxes[j]) = Area(top_boxes.list[10])

(***************************************************************************)
(* The service: _load_artifacts at import time and the /analyze handler.   *)
(***************************************************************************)
ConfigKeys ==
    {"ela_quality", "threshold_multiplier", "min_region_size",
     "enhancement_strength", "feature_names"}

\* config["ela_quality"], config["threshold_multiplier"],
\* config["min_region_size"], config["enhancement_strength"]  (lines 70-73)
IndexedKeysFewer ==
    {"ela_quality", "threshold_multiplier", "enhancement_strength"}
IndexedKeys ==
    {"ela_quality", "threshold_multiplier", "min_region_size", "enhancement_strength"}

\* the pickled classifier: predict and predict_proba as functions of the
\* scaled feature vector.  "stump" splits on the suspicious percentage,
\* "always_fake" is a constant stub, "odd_stub" is a stub whose pair is not
\* normalised and disagrees with its predict.
Classifiers == {"stump", "always_fake", "odd_stub"}
predict(model, fs) ==
    CASE model = "stump" -> IF fs[7] > -5 THEN 1 ELSE 0
      [] model = "always_fake" -> 1
      [] OTHER -> 1
predict_proba(model, fs) ==         \* (p_real, p_fake) in tenths
    CASE model = "stump" -> IF fs[7] > -5 THEN <<2, 8>> ELSE <<9, 1>>
      [] model = "always_fake" -> <<1, 9>>
      [] OTHER -> <<6, 3>>
\* SCALER.transform: a fixed per-feature shift
transform(scaler, fs) == [k \in 1..Len(fs) |-> fs[k] - scaler]

Multipliers == {0, 10}          \* threshold_multiplier 0.0 and 1.0, in tenths
MinRegionSizes == {23, 50}

Disks ==
    [model : BOOLEAN, scaler : BOOLEAN, config : BOOLEAN,
     keys : SUBSET ConfigKeys,
     classifier : Classifiers,
     threshold_multiplier : Multipliers,
     min_region_size : MinRegionSizes]

\* _load_artifacts, lines 60-76
load_artifacts(d) ==
    IF ~(d.model /\ d.scaler /\ d.config)
    THEN [raised |-> "RuntimeError"]
    ELSE IF ~(IndexedKeys \subseteq d.keys)
    THEN [raised |-> "KeyError"]
    ELSE [raised |-> "no",
          rf_model |-> d.classifier,
          scaler |-> 5,
          ela_cfg |-> [ela_quality |-> 90,
                       threshold_multiplier |-> d.threshold_multiplier,
                       min_region_size |-> d.min_region_size,
                       enhancement_strength |-> 10,
                       feature_names |-> IF "feature_names" \in d.keys
                                         THEN <<"mean_error", "max_error">>
                                         ELSE <<>>]]

Unassigned == [assigned |-> FALSE]

\* RF_MODEL, SCALER, ELA_CFG = _load_artifacts()   (line 79, at import)
LoadArtifacts ==
    /\ svc = "starting"
    /\ LET got == load_artifacts(disk)
       IN IF got.raised = "no"
          THEN /\ svc' = "serving"
               /\ RF_MODEL' = got.rf_model
               /\ SCALER' = got.scaler
               /\ ELA_CFG' = got.ela_cfg
          ELSE /\ svc' = "failed"
               /\ UNCHANGED <<RF_MODEL, SCALER, ELA_CFG>>
    /\ UNCHANGED <<disk, req>>
    /\ UNCHANGED regionVars /\ UNCHANGED topVars /\ UNCHANGED featVars

(***************************************************************************)
(* Uploads.  The bytes of an upload are a token; PilDecode is what         *)
(* Image.open(...).convert("RGB") does with them, and ErrorMap is the      *)
(* array perform_ela returns for a decoded image (the JPEG round trip is   *)
(* not modelled: its result is the input).                                 *)
(***************************************************************************)
Images == {"flat", "flat255", "speckle", "block", "two_l"}
Contents == {"", "garbage", "truncated"} \cup Images

\* Image.open raises UnidentifiedImageError for bytes no plugin accepts
\* (the empty string among them); convert() loads the pixel data and
\* raises OSError for a file cut short.
PilDecode(contents) ==
    CASE contents \in {"", "garbage"} -> "UnidentifiedImageError"
      [] contents = "truncated" -> "OSError"
      [] OTHER -> "ok"

ErrorMap(img) ==
    CASE img = "flat" -> [y \in 0..2 |-> [x \in 0..3 |-> 7]]
      [] img = "flat255" -> [y \in 0..0 |-> [x \in 0..0 |-> 255]]
      [] img = "speckle" ->
            [y \in 0..3 |-> [x \in 0..4 |->
                IF (x + y) % 4 = 0 THEN 200 ELSE (3 * x + y) % 20]]
      [] img = "block" ->
            [y \in 0..15 |-> [x \in 0..15 |->
                IF y \in 2..(MaxSide + 1) /\ x \in 2..(MaxSide + 1)
                THEN 220 + (x % 3) ELSE (x + y) % 5]]
      [] OTHER ->
            [y \in 0..(MaxSide + 1) |-> [x \in 0..(3 * MaxSide) |->
                IF \/ <<y - 1, x>> \in Probe(MaxSide, MaxSide, 0)
                   \/ <<y - 1, x - MaxSide - 3>> \in Probe(MaxSide, MaxSide, 1)
                THEN 240 ELSE 1]]

\* perform_ela(pil_img, quality, enhancement)
perform_ela(img, quality, enhancement) == ErrorMap(img)

\* extract_features(pil_img) is a function of the image and of ELA_CFG
\* alone; its values for the images of the model are tabulated once
FeatureTable ==
    [img \in Images |-> [m \in Multipliers |-> [a \in MinRegionSizes |->
        extract_features(perform_ela(img, 90, 10),
                         [threshold_multiplier |-> m, min_region_size |-> a])]]]

(***************************************************************************)
(* analyze_image, lines 254-306.  The result carries the HTTP status, the  *)
(* calls made on the way (`calls`), the locals the response is built from  *)
(* (`locals`) and the response body; the embedded images are left out.     *)
(***************************************************************************)
NoLocals == [assigned |-> FALSE]
NoBody == [assigned |-> FALSE]

HttpError(code, calls) ==
    [status |-> code, calls |-> calls, locals |-> NoLocals, body |-> NoBody]

\* if not contents                                           (line 257)
IsEmptyNever(contents) == FALSE
IsEmpty(contents) == contents = ""

\* except UnidentifiedImageError                             (line 261)
Caught(exc) == exc = "UnidentifiedImageError"

\* is_fake = bool(pred == 1)                                 (line 273)
IsFakeByProba(pred, proba) == proba[2] > proba[1]
IsFake(pred, proba) == pred = 1

\* "FAKE" if is_fake else "REAL"                             (line 292)
LabelOf(is_fake) == IF is_fake THEN "FAKE" ELSE "REAL"

analyze_image(contents, rf_model, scaler, cfg) ==
    IF IsEmpty(contents) THEN HttpError(400, <<>>)
    ELSE IF PilDecode(contents) # "ok"
    THEN \* an exception the handler does not catch leaves it and the
         \* framework answers 500
         HttpError(IF Caught(PilDecode(contents)) THEN 400 ELSE 500, <<"Image.open">>)
    ELSE
    LET ef == FeatureTable[contents][cfg.threshold_multiplier][cfg.min_region_size]
        \* `if features is None` (line 265) never holds: extract_features
        \* always returns the concatenated array
        features_scaled == transform(scaler, ef.features)
        pred == predict(rf_model, features_scaled)
        proba == predict_proba(rf_model, features_scaled)
        real_prob == proba[1]
        fake_prob == proba[2]
        is_fake == IsFake(pred, proba)
        top == TopBoxes(ef.boxes)
    IN [status |-> 200,
        calls |-> <<"Image.open", "extract_features", "SCALER.transform",
                    "RF_MODEL.predict", "RF_MODEL.predict_proba",
                    "_ela_heatmap_image">>,
        locals |-> [assigned |-> TRUE, features |-> ef.features, pred |-> pred,
                    proba |-> proba, boxes |-> ef.boxes,
                    heatmap_divisor |-> HeatmapDivisor(ef.ela_array)],
        body |-> [assigned |-> TRUE,
                  label |-> LabelOf(is_fake),
                  probabilities |-> [real |-> real_prob, fake |-> fake_prob],
                  fake_probability |-> fake_prob,
                  is_fake |-> is_fake,
                  top_boxes |-> top,
                  threshold |-> ef.threshold,
                  feature_summary |-> ef.feature_dict]]

Requests == 1..MaxRequests

NewRequest == [pc |-> "idle", contents |-> "", result |-> HttpError(0, <<>>)]

Init ==
    /\ disk \in Disks
    /\ svc = "starting"
    /\ RF_MODEL = Unassigned /\ SCALER = Unassigned /\ ELA_CFG = Unassigned
    /\ req = [r \in Requests |-> NewRequest]
    /\ IdleRegions /\ IdleTop /\ IdleFeatures

\* a POST /analyze arrives and the handler waits in `await image.read()`
\* (line 256); requests are numbered in their order of arrival
Receive(r) ==
    /\ svc = "serving"
    /\ req[r].pc = "idle"
    /\ r > 1 => req[r - 1].pc # "idle"
    /\ \E c \in Contents :
        req' = [req EXCEPT ![r] = [@ EXCEPT !.pc = "reading", !.contents = c]]
    /\ UNCHANGED <<disk, svc, RF_MODEL, SCALER, ELA_CFG>>
    /\ UNCHANGED regionVars /\ UNCHANGED topVars /\ UNCHANGED featVars

\* a handler that also tunes the shared configuration from the request
AnalyzeImageTuning(r) ==
    /\ svc = "serving"
    /\ req[r].pc = "reading"
    /\ req' = [req EXCEPT ![r] =
                 [@ EXCEPT !.pc = "done",
                           !.result = analyze_image(req[r].contents, RF_MODEL,
                                                    SCALER, ELA_CFG)]]
    /\ ELA_CFG' = [ELA_CFG EXCEPT !.min_region_size = 50]
    /\ UNCHANGED <<disk, svc, RF_MODEL, SCALER>>
    /\ UNCHANGED regionVars /\ UNCHANGED topVars /\ UNCHANGED featVars

\* the rest of the handler runs without suspension (lines 257-306)
AnalyzeImage(r) ==
    /\ svc = "serving"
    /\ req[r].pc = "reading"
    /\ req' = [req EXCEPT ![r] =
                 [@ EXCEPT !.pc = "done",
                           !.result = analyze_image(req[r].contents, RF_MODEL,
                                                    SCALER, ELA_CFG)]]
    /\ UNCHANGED <<disk, svc, RF_MODEL, SCALER, ELA_CFG>>
    /\ UNCHANGED regionVars /\ UNCHANGED topVars /\ UNCHANGED featVars

Next ==
    \/ LoadArtifacts
    \/ \E r \in Requests : Receive(r)
    \/ \E r \in Requests : AnalyzeImage(r)

Spec == Init /\ [][Next]_vars

(***************************************************************************)
(* Specification SpecFeatures: extract_features and _ela_heatmap_image     *)
(* applied to error maps: every uniform map and every ramp of up to        *)
(* MaxDim x MaxDim pixels, and the maps of the uploads above.              *)
(***************************************************************************)
MaxDim == 3

Uniform(h, w, v) == [y \in 0..(h - 1) |-> [x \in 0..(w - 1) |-> v]]
Ramp(h, w, step) == [y \in 0..(h - 1) |-> [x \in 0..(w - 1) |-> (step * (y * w + x)) % 256]]

FeatureMaps ==
    {Uniform(h, w, v) : h \in 1..MaxDim, w \in 1..MaxDim, v \in {0, 7, 255}}
        \cup {Ramp(h, w, st) : h \in 1..MaxDim, w \in 1..MaxDim, st \in {1, 37, 100}}
        \cup {ErrorMap(img) : img \in {"speckle", "block", "two_l"}}

ElaConfigs ==
    {load_artifacts(d).ela_cfg :
        d \in {e \in Disks : load_artifacts(e).raised = "no"}}

InitFeatures ==
    /\ disk = None /\ svc = None /\ RF_MODEL = None /\ SCALER = None /\ req = <<>>
    /\ ELA_CFG \in ElaConfigs
    /\ ela_array \in FeatureMaps
    /\ labeled_array = <<>> /\ num_features = 0 /\ min_area = 0 /\ regions = NoRegions
    /\ IdleTop /\ IdleFeatures

\* extract_features, lines 160-207, on the error map of line 160
ExtractFeatures ==
    /\ ~feat.done
    /\ feat' = [done |-> TRUE, out |-> extract_features(ela_array, ELA_CFG)]
    /\ UNCHANGED <<heat, runs, mask_stage>> /\ UNCHANGED regionVars
    /\ UNCHANGED svcVars /\ UNCHANGED topVars

\* _ela_heatmap_image, lines 230-233, called at line 281
RenderHeatmap ==
    /\ feat.done /\ ~heat.done
    /\ heat' = [done |-> TRUE, divisor |-> HeatmapDivisor(feat.out.ela_array),
                normalized |-> Normalized(feat.out.ela_array)]
    /\ UNCHANGED <<feat, runs, mask_stage>> /\ UNCHANGED regionVars
    /\ UNCHANGED svcVars /\ UNCHANGED topVars

NextFeatures == ExtractFeatures \/ RenderHeatmap

SpecFeatures == InitFeatures /\ [][NextFeatures]_vars

(***************************************************************************)
(* Claims about the handler and the startup (checked under Spec).          *)
(***************************************************************************)
Done(r) == req[r].pc = "done"
Scored(r) == Done(r) /\ req[r].result.status = 200
Ran(r, call) == \E k \in 1..Len(req[r].result.calls) : req[r].result.calls[k] = call
PipelineCalls ==
    {"extract_features", "SCALER.transform", "RF_MODEL.predict", "RF_MODEL.predict_proba"}

\* C5: a request whose upload is empty is answered 400, and neither the
\* decoder nor feature extraction, scaling or the classifier has run for it.
C5_EmptyRejectedBeforeDecode ==
    \A r \in Requests :
        (req[r].pc # "idle" /\ req[r].contents = "") =>
            /\ Done(r) => req[r].result.status = 400
            /\ req[r].result.calls = <<>>

\* C5 witness: an empty upload was answered 400.
C5_Witness ==
    \E r \in Requests :
        Done(r) /\ req[r].contents = "" /\ req[r].result.status = 400

\* C6 (as claimed): a request whose non-empty upload cannot be decoded,
\* whatever the decoder raises, is answered 400 and no feature extraction,
\* scaling or classifier call has run for it.
C6_UndecodableRejected ==
    \A r \in Requests :
        (Done(r) /\ req[r].contents # "" /\ PilDecode(req[r].contents) # "ok") =>
            /\ req[r].result.status = 400
            /\ \A c \in PipelineCalls : ~Ran(r, c)

\* C7: in a scored response the label is "FAKE" exactly when predict
\* returned 1 and "REAL" otherwise, is_fake says the label is "FAKE",
\* fake_probability is probabilities.fake, the probabilities are the pair
\* predict_proba returned, and they sum to 1 when that pair does.
C7_LabelAndProbabilities ==
    \A r \in Requests :
        Scored(r) =>
            LET b == req[r].result.body
                l == req[r].result.locals
            IN /\ b.label = "FAKE" <=> l.pred = 1
               /\ b.label # "FAKE" => b.label = "REAL"
               /\ b.is_fake <=> b.label = "FAKE"
               /\ b.fake_probability = b.probabilities.fake
               /\ b.probabilities.real = l.proba[1]
               /\ b.probabilities.fake = l.proba[2]
               /\ l.proba[1] + l.proba[2] = 10
                    => b.probabilities.real + b.probabilities.fake = 10

\* C7 witness: the same classifier scored one upload FAKE, with
\* probabilities summing to 1, and another REAL.
C7_Witness ==
    \E r, q \in Requests :
        /\ Scored(r) /\ req[r].result.body.label = "FAKE"
        /\ req[r].result.locals.pred = 1
        /\ req[r].result.body.probabilities.real + req[r].result.body.probabilities.fake = 10
        /\ Scored(q) /\ req[q].result.body.label = "REAL"
        /\ ~req[q].result.body.is_fake

\* the artifacts and the configuration entries the claims name
ArtifactsPresent == disk.model /\ disk.scaler /\ disk.config
NeverServed ==
    /\ svc # "serving"
    /\ \A r \in Requests : req[r].pc = "idle"
    /\ RF_MODEL = Unassigned /\ SCALER = Unassigned /\ ELA_CFG = Unassigned

\* C10 (as claimed): if an artifact is absent or the configuration lacks
\* any of ela_quality, threshold_multiplier, min_region_size,
\* enhancement_strength or the feature names, the service never serves and
\* no analyze request is processed.
C10_AllFiveRequired ==
    (~ArtifactsPresent
        \/ ~({"ela_quality", "threshold_multiplier", "min_region_size",
              "enhancement_strength", "feature_names"} \subseteq disk.keys))
    => NeverServed

\* C10 (amended): if an artifact is absent or the configuration lacks any
\* of ela_quality, threshold_multiplier, min_region_size or
\* enhancement_strength, the service never serves, the globals are never
\* assigned and no analyze request is processed.
C10_LoadFailsFatally ==
    (~ArtifactsPresent
        \/ ~({"ela_quality", "threshold_multiplier", "min_region_size",
              "enhancement_strength"} \subseteq disk.keys))
    => NeverServed

\* C10 witness: the import failed on a configuration file that is present
\* but lacks min_region_size.
C10_Witness ==
    /\ svc = "failed"
    /\ ArtifactsPresent
    /\ "min_region_size" \notin disk.keys
    /\ {"ela_quality", "threshold_multiplier", "enhancement_strength", "feature_names"}
            \subseteq disk.keys

(***************************************************************************)
(* Claims about the feature vector (checked under SpecFeatures).           *)
(***************************************************************************)
IsUniform(a) == Cardinality(Values(a)) = 1

\* C8: the feature vector has 29 entries: the 7 global statistics, the 5
\* region aggregates, the 10 histogram bins, the 5 percentiles and the 2
\* edge sums, in this order.
C8_FeatureVectorLayout ==
    feat.done =>
        LET f == feat.out.features
            a == ela_array
        IN /\ Len(f) = 29
           /\ SubSeq(f, 1, 7) = GlobalStats(a, feat.out.threshold)
           /\ SubSeq(f, 8, 12) = RegionAggregates(feat.out)
           /\ SubSeq(f, 13, 22) = HistNorm(a)
           /\ SubSeq(f, 23, 27) = Percentiles(a)
           /\ SubSeq(f, 28, 29) = <<10 * EdgesH(a), 10 * EdgesV(a)>>
           /\ Len(GlobalStats(a, feat.out.threshold)) = 7
           /\ Len(RegionAggregates(feat.out)) = 5
           /\ Len(HistNorm(a)) = 10
           /\ Len(Percentiles(a)) = 5

\* C8 witness: a vector was built for a map with two regions, and one for
\* a one-pixel map without any (checked separately below).
C8_Witness ==
    /\ feat.done
    /\ Len(feat.out.boxes) = 2
    /\ Len(feat.out.features) = 29
    /\ feat.out.features[8] = 20

C8_WitnessNoRegion ==
    /\ feat.done /\ ArraySize(ela_array) = 1 /\ feat.out.boxes = <<>>
    /\ Len(feat.out.features) = 29

\* C9: for a uniform error map the threshold equals the mean, no pixel is
\* suspicious (count 0, percentage 0), the three region lists are empty,
\* the five region aggregates are 0, and the heatmap is normalised with
\* divisor 1, without a nan.
C9_UniformMap ==
    IsUniform(ela_array) =>
        /\ feat.done =>
            /\ feat.out.threshold = feat.out.features[1]
            /\ feat.out.features[5] = feat.out.features[1]
            /\ feat.out.features[6] = 0 /\ feat.out.features[7] = 0
            /\ feat.out.feature_dict.suspicious_pixels = 0
            /\ feat.out.feature_dict.suspicious_percentage = 0
            /\ feat.out.boxes = <<>>
            /\ feat.out.region_sizes = <<>>
            /\ feat.out.region_intensities = <<>>
            /\ SubSeq(feat.out.features, 8, 12) = <<0, 0, 0, 0, 0>>
        /\ heat.done =>
            /\ heat.divisor = 1
            /\ \A y \in DOMAIN heat.normalized :
                 \A x \in DOMAIN heat.normalized[y] : heat.normalized[y][x] = 0

\* C9 witness: a uniform map of several pixels and a non-zero value went
\* through extract_features with a non-zero multiplier and through the
\* heatmap normalisation.
C9_Witness ==
    /\ IsUniform(ela_array) /\ ArraySize(ela_array) > 1
    /\ ela_array[0][0] = 255
    /\ ELA_CFG.threshold_multiplier > 0
    /\ feat.done /\ heat.done /\ heat.divisor = 1

(***************************************************************************)
(* Specification SpecRerun: the pipeline of analyze_image, lines 264 and   *)
(* 275-278 (extract_features, then the box selection), run repeatedly on   *)
(* one decoded image under one configuration.  The pipeline reads ELA_CFG  *)
(* (lines 160, 166, 172) and its argument; it assigns no module global and *)
(* writes to neither the image nor the error map, and it draws no random   *)
(* number.                                                                 *)
(***************************************************************************)
InitRerun ==
    /\ disk = None /\ svc = None /\ RF_MODEL = None /\ SCALER = None /\ req = <<>>
    /\ ELA_CFG \in ElaConfigs
    /\ ela_array \in FeatureMaps
    /\ labeled_array = <<>> /\ num_features = 0 /\ min_area = 0 /\ regions = NoRegions
    /\ IdleTop /\ IdleFeatures

RunPipeline ==
    /\ Len(runs) < MaxRuns
    /\ LET out == extract_features(ela_array, ELA_CFG)
           top == TopBoxes(out.boxes)
       IN runs' = Append(runs, [features |-> out.features,
                                threshold |-> out.threshold,
                                boxes |-> out.boxes,
                                top_boxes |-> top])
    /\ UNCHANGED <<feat, heat, mask_stage>>
    /\ UNCHANGED svcVars /\ UNCHANGED regionVars /\ UNCHANGED topVars

NextRerun == RunPipeline

SpecRerun == InitRerun /\ [][NextRerun]_vars

MaskGrid == (0..3) \X (0..4)

RECURSIVE SubsetsOfSize(_, _)
SubsetsOfSize(S, k) ==
    IF k = 0 THEN {{}}
    ELSE IF S = {} THEN {}
    ELSE LET x == RasterFirst(S)
         IN {T \cup {x} : T \in SubsetsOfSize(S \ {x}, k - 1)}
                \cup SubsetsOfSize(S \ {x}, k)

MaskMap(M) == [y \in 0..3 |-> [x \in 0..4 |-> IF <<y, x>> \in M THEN 250 ELSE 0]]

MaskMaps ==
    {MaskMap(M) : M \in UNION {SubsetsOfSize(MaskGrid, k) : k \in 2..MaxMaskPixels}}
        \cup {ErrorMap(img) : img \in {"speckle", "block", "two_l"}}

\* thresholds 100.0 and 250.0, in tenths
MaskThresholds == {1000, 2500}

InitMask ==
    /\ IdleService /\ IdleTop /\ IdleFeatures
    /\ ela_array \in MaskMaps
    /\ min_area = 23
    /\ labeled_array = <<>> /\ num_features = 0 /\ regions = NoRegions

\* find_suspicious_regions(ela_array, threshold, min_area), lines 102-156
FindSuspiciousRegions ==
    /\ ~mask_stage.done
    /\ \E thr10 \in MaskThresholds :
        mask_stage' = [done |-> TRUE, threshold |-> thr10,
                       locals |-> MaskStage(ela_array, thr10),
                       out |-> find_suspicious_regions(ela_array, thr10, min_area)]
    /\ UNCHANGED <<feat, heat, runs>>
    /\ UNCHANGED svcVars /\ UNCHANGED regionVars /\ UNCHANGED topVars

NextMask == FindSuspiciousRegions

SpecMask == InitMask /\ [][NextMask]_vars

\* the pixels of the error map strictly above the threshold of the call
AboveThreshold ==
    {p \in Pixels(ela_array) : 10 * ela_array[p[1]][p[2]] > mask_stage.threshold}
MoreThan15Percent ==
    100 * Cardinality(AboveThreshold) > 15 * ArraySize(ela_array)

\* C12: in a call of find_suspicious_regions that reaches the labeling,
\* the opening ran exactly when the pixels above the threshold are strictly
\* more than 15% of the pixels of the map; the mask labeled is then the
\* opened mask, and at 15% or below it is the thresholded mask unchanged;
\* and when the labeled mask has no component the call returns three empty
\* lists.
C12_OpeningBoundary ==
    (mask_stage.done /\ mask_stage.locals.labeled) =>
        /\ mask_stage.locals.opening <=> MoreThan15Percent
        /\ mask_stage.locals.suspicious_mask =
                IF MoreThan15Percent THEN binary_opening(AboveThreshold)
                ELSE AboveThreshold
        /\ mask_stage.locals.num_features = 0 =>
                /\ mask_stage.locals.returned_at = 116
                /\ mask_stage.out = NoRegionLists

\* C12 witness: exactly 15% of the pixels are above the threshold, the mask
\* was labeled as thresholded, and an opening would have changed it.
C12_Witness ==
    /\ mask_stage.done /\ mask_stage.locals.labeled
    /\ 100 * Cardinality(AboveThreshold) = 15 * ArraySize(ela_array)
    /\ mask_stage.locals.suspicious_mask = AboveThreshold
    /\ binary_opening(AboveThreshold) # AboveThreshold
    /\ mask_stage.locals.num_features > 0

\* C12, second case reached: the opening ran and left no component, and
\* the call returned three empty lists.
C12_WitnessOpenedEmpty ==
    /\ mask_stage.done /\ mask_stage.locals.opening
    /\ mask_stage.locals.thresholded # {}
    /\ mask_stage.locals.suspicious_mask = {}
    /\ mask_stage.out = NoRegionLists

\* C12, third case reached: the opening ran and a component survived it
\* and was returned as a region.
C12_WitnessOpenedKept ==
    /\ mask_stage.done /\ mask_stage.locals.opening
    /\ mask_stage.locals.num_features > 0
    /\ mask_stage.out.boxes # <<>>

(***************************************************************************)
(* Claim about the artifact bundle under concurrent requests (checked      *)
(* under Spec).                                                            *)
(***************************************************************************)
Bundle == <<RF_MODEL, SCALER, ELA_CFG>>
\* line 79 assigns the three names in one statement
BundleAssigned == ELA_CFG # Unassigned

\* a request was received or answered in this step
RequestStep == \E r \in Requests : req'[r] # req[r]

\* C13: whenever a request has been received the bundle is assigned; a
\* step of a request leaves RF_MODEL, SCALER and ELA_CFG as they were, and
\* once assigned they never change; every answer is what analyze_image
\* gives for that request's own bytes and the bundle, so two requests with
\* the same bytes have the same answer whatever ran in between.
C13_BundleFrame ==
    /\ []((\E r \in Requests : req[r].pc # "idle") => BundleAssigned)
    /\ [][RequestStep => UNCHANGED Bundle]_vars
    /\ [][BundleAssigned => UNCHANGED Bundle]_vars
    /\ [](\A r \in Requests :
            Done(r) => req[r].result =
                analyze_image(req[r].contents, RF_MODEL, SCALER, ELA_CFG))
    /\ [](\A r, q \in Requests :
            (Done(r) /\ Done(q) /\ req[r].contents = req[q].contents)
                => req[r].result = req[q].result)

\* C13 witness: a later request was scored while an earlier one, with
\* different bytes, was still waiting for its upload, under an assigned
\* bundle.
C13_Witness ==
    /\ BundleAssigned
    /\ req[1].pc = "reading" /\ Scored(2)
    /\ req[1].contents # req[2].contents
    /\ req[2].result.body.top_boxes # <<>>

\* C13, second case reached: two requests with the same bytes were both
\* scored, with the same answer.
C13_WitnessSameBytes ==
    /\ BundleAssigned
    /\ Scored(1) /\ Scored(2)
    /\ req[1].contents = req[2].contents
    /\ req[1].result = req[2].result
====
